---------------------------- MODULE Spec2Model ----------------------------
(***************************************************************************)
(* A model of app.py, the Streamlit weather dashboard.                     *)
(*                                                                         *)
(* Streamlit re-runs the script from top to bottom on every interaction:   *)
(* one run of main() is one render cycle.  The state is what survives a    *)
(* run (the text input's value, the environment's API_KEY, the clock) plus *)
(* what the last run did (the elements it put on the page, the exception   *)
(* that ended it, the answer the endpoint gave) and the counters the       *)
(* properties speak about.                                                 *)
(*                                                                         *)
(* Python values are tagged records: [t |-> "int", v |-> 70],              *)
(* [t |-> "float", v |-> 150] (a float with one decimal, in tenths: 15.0), *)
(* [t |-> "str", v |-> <<"a", "b">>] (a str as its characters),            *)
(* [t |-> "null"] (None), [t |-> "list", v |-> <<...>>] and                *)
(* [t |-> "dict", v |-> f] with f a function from the keys to the values.  *)
(* A statement that can raise yields [ok |-> TRUE, val |-> ...] or         *)
(* [ok |-> FALSE, exc |-> <the exception's class>].                        *)
(***************************************************************************)
EXTENDS Integers, Sequences, FiniteSets, TLC

VARIABLES
    api_key,        \* os.getenv('API_KEY'): None or the configured credential
    city,           \* the value of the "Enter City Name" text input
    search_clicked, \* what st.button("Get Weather") returned in the last run
    now,            \* the clock datetime.now() reads
    answer,         \* what requests.get met in the last run ("none": no request)
    data,           \* what get_weather_data returned in the last run, if called
    page,           \* the elements the last run put on the page, in order
    unhandled,      \* the exception that ended the last run, "none" if it completed
    requests,       \* outbound HTTP requests issued so far
    submissions,    \* runs so far with the button clicked and a non-empty city
    cycles,         \* runs so far after the first
    earlier,        \* one earlier submission, remembered: its city, answer and outcome
    gauge_in,       \* the (temp, feels_like) pair a gauge is asked for
    gauge_out       \* the chart specifications created for gauge_in, in order

vars == <<api_key, city, search_clicked, now, answer, data, page, unhandled,
          requests, submissions, cycles, earlier, gauge_in, gauge_out>>

----------------------------------------------------------------------------
(* Bounds of the model. *)

MaxCycles == 3
MaxGaugeCalls == 2

----------------------------------------------------------------------------
(* Python values. *)

None == [t |-> "null"]
PyInt(n) == [t |-> "int", v |-> n]
PyFloat(tenths) == [t |-> "float", v |-> tenths]
PyStr(chars) == [t |-> "str", v |-> chars]
PyList(s) == [t |-> "list", v |-> s]
PyDict(f) == [t |-> "dict", v |-> f]

Raise(cls) == [ok |-> FALSE, exc |-> cls]
Value(x) == [ok |-> TRUE, val |-> x]

(* bool(x), as `if data:` takes it. *)
Truthy(x) ==
    CASE x.t = "null" -> FALSE
      [] x.t = "int" -> x.v # 0
      [] x.t = "float" -> x.v # 0
      [] x.t = "str" -> Len(x.v) > 0
      [] x.t = "list" -> Len(x.v) > 0
      [] x.t = "dict" -> DOMAIN x.v # {}

(* x[k] with a str key k: a dict looks the key up, anything else refuses it. *)
GetItem(x, k) ==
    IF x.t = "dict"
    THEN IF k \in DOMAIN x.v THEN Value(x.v[k]) ELSE Raise("KeyError")
    ELSE Raise("TypeError")

(* x[i] with an int index i >= 0 (the code only uses [0]). *)
GetIndex(x, i) ==
    CASE x.t \in {"list", "str"} ->
            IF i < Len(x.v)
            THEN Value(IF x.t = "list" THEN x.v[i + 1] ELSE PyStr(<<x.v[i + 1]>>))
            ELSE Raise("IndexError")
      [] x.t = "dict" -> Raise("KeyError")
      [] OTHER -> Raise("TypeError")

(* r[k] where r is the outcome of an earlier subscript. *)
Then(r, k) == IF r.ok THEN GetItem(r.val, k) ELSE r

(* x.get(k, default): only a dict has the method. *)
DictGet(x, k, default) ==
    IF x.t = "dict"
    THEN Value(IF k \in DOMAIN x.v THEN x.v[k] ELSE default)
    ELSE Raise("AttributeError")

(* The characters of a str, joined into one string. *)
RECURSIVE Join(_)
Join(chars) ==
    IF Len(chars) = 0 THEN "" ELSE chars[1] \o Join(Tail(chars))

(* str(x) of a number, a str or None, as an f-string formats it: an int in
   decimal, a float as its shortest repr (here: one decimal), a str as
   itself, None as "None". *)
Abs(n) == IF n < 0 THEN -n ELSE n

Str(x) ==
    CASE x.t = "int" -> ToString(x.v)
      [] x.t = "float" ->
            (IF x.v < 0 THEN "-" ELSE "") \o ToString(Abs(x.v) \div 10)
                \o "." \o ToString(Abs(x.v) % 10)
      [] x.t = "str" -> Join(x.v)
      [] x.t = "null" -> "None"

(* str.title(): the first letter of every run of letters in upper case, the
   rest of the run in lower case; other characters unchanged. *)
Lowers == <<"a", "b", "c", "d", "e", "f", "g", "h", "i", "j", "k", "l", "m",
            "n", "o", "p", "q", "r", "s", "t", "u", "v", "w", "x", "y", "z">>
Uppers == <<"A", "B", "C", "D", "E", "F", "G", "H", "I", "J", "K", "L", "M",
            "N", "O", "P", "Q", "R", "S", "T", "U", "V", "W", "X", "Y", "Z">>

Range(s) == {s[i] : i \in DOMAIN s}
Cased == Range(Lowers) \cup Range(Uppers)
ToUpper == [c \in Range(Lowers) |-> Uppers[CHOOSE i \in DOMAIN Lowers : Lowers[i] = c]]
ToLower == [c \in Range(Uppers) |-> Lowers[CHOOSE i \in DOMAIN Uppers : Uppers[i] = c]]
IsCased(c) == c \in Cased
Upper(c) == IF c \in DOMAIN ToUpper THEN ToUpper[c] ELSE c
Lower(c) == IF c \in DOMAIN ToLower THEN ToLower[c] ELSE c

Title(chars) ==
    [i \in DOMAIN chars |->
        IF i > 1 /\ IsCased(chars[i - 1]) THEN Lower(chars[i]) ELSE Upper(chars[i])]

(* x.title(): only a str has the method. *)
TitleOf(r) ==
    IF ~r.ok THEN r
    ELSE IF r.val.t = "str" THEN Value(Title(r.val.v)) ELSE Raise("AttributeError")

----------------------------------------------------------------------------
(* What requests.get meets.  Either the call itself raises (no response),
   or a response comes back with a status and a body; the body either parses
   as JSON to `body`, or response.json() raises with `desc`. *)

Raised(cls, desc) ==
    [kind |-> "raised", cls |-> cls, desc |-> desc,
     status |-> 0, parseable |-> FALSE, body |-> None]
Response(status, body) ==
    [kind |-> "response", cls |-> "", desc |-> "",
     status |-> status, parseable |-> TRUE, body |-> body]
Unparseable(status, desc) ==
    [kind |-> "response", cls |-> "JSONDecodeError", desc |-> desc,
     status |-> status, parseable |-> FALSE, body |-> None]
NoRequest ==
    [kind |-> "none", cls |-> "", desc |-> "",
     status |-> 0, parseable |-> FALSE, body |-> None]

(* The request get_weather_data sends. *)
BASE_URL == "https://api.openweathermap.org/data/2.5/weather"

Request(city_name) ==
    [url |-> BASE_URL, q |-> city_name, appid |-> api_key, units |-> "metric"]

(* Faulty variants of raise_for_status: one that never raises, one that
   raises for the 5xx statuses only. *)
RaiseForStatusMute(r) == FALSE

RaiseForStatusServerOnly(r) == 500 <= r.status /\ r.status < 600

(* response.raise_for_status(): raises HTTPError for a 4xx or 5xx status. *)
RaiseForStatus(r) == 400 <= r.status /\ r.status < 600

(* The elements st.error puts on the page.  The texts are the code's without
   the leading cross-mark emoji, which the string syntax here cannot hold. *)
Error(text) == [w |-> "error", text |-> text]

ClientErrorText == "Error: City not found or invalid API key"
GenericErrorText(desc) == "An error occurred: " \o desc

(* Faulty variants of get_weather_data: one that sends the request again
   after a failure, one with a single handler for every failure, one that
   does not signal an error the page already shows. *)
GetWeatherDataRetry(city_name, ans) ==
    LET failed == ans.kind = "raised" \/ ans.status >= 400 \/ ~ans.parseable
    IN  [ret |-> IF failed THEN None ELSE ans.body,
         errors |-> IF ans.kind # "raised" /\ ans.status >= 400
                    THEN <<Error(ClientErrorText)>>
                    ELSE IF failed THEN <<Error(GenericErrorText(ans.desc))>>
                    ELSE <<>>,
         request |-> Request(city_name),
         sent |-> IF failed THEN 2 ELSE 1]

GetWeatherDataOneHandler(city_name, ans) ==
    LET failed == ans.kind = "raised" \/ ans.status >= 400 \/ ~ans.parseable
    IN  [ret |-> IF failed THEN None ELSE ans.body,
         errors |-> IF failed THEN <<Error(ClientErrorText)>> ELSE <<>>,
         request |-> Request(city_name),
         sent |-> 1]

GetWeatherDataQuietRepeat(city_name, ans) ==
    LET failed == ans.kind = "raised" \/ ans.status >= 400 \/ ~ans.parseable
        error == IF ans.kind # "raised" /\ ans.status >= 400
                 THEN Error(ClientErrorText)
                 ELSE Error(GenericErrorText(ans.desc))
    IN  [ret |-> IF failed THEN None ELSE ans.body,
         errors |-> IF failed /\ error \notin {page[i] : i \in DOMAIN page}
                    THEN <<error>> ELSE <<>>,
         request |-> Request(city_name),
         sent |-> 1]

(* get_weather_data(city_name) when requests.get meets `ans`: what it
   returns, the errors it signals, and the requests it has sent. *)
GetWeatherData(city_name, ans) ==
    LET request == Request(city_name)
    IN  IF ans.kind = "raised"
        THEN \* requests.get raised: never an HTTPError, so `except Exception`
             [ret |-> None, errors |-> <<Error(GenericErrorText(ans.desc))>>,
              request |-> request, sent |-> 1]
        ELSE IF RaiseForStatus(ans)
        THEN \* except requests.exceptions.HTTPError
             [ret |-> None, errors |-> <<Error(ClientErrorText)>>,
              request |-> request, sent |-> 1]
        ELSE IF ~ans.parseable
        THEN \* response.json() raised: `except Exception`
             [ret |-> None, errors |-> <<Error(GenericErrorText(ans.desc))>>,
              request |-> request, sent |-> 1]
        ELSE [ret |-> ans.body, errors |-> <<>>, request |-> request, sent |-> 1]

----------------------------------------------------------------------------
(* create_temperature_gauge(temp, feels_like): the chart specification. *)

AxisRange == <<-20, 50>>
Bands == <<[range |-> <<-20, 0>>, color |-> "#1E88E5"],
           [range |-> <<0, 20>>, color |-> "#FFC107"],
           [range |-> <<20, 50>>, color |-> "#FF5722"]>>

(* A faulty variant that keeps the value within the axis. *)
Clamp(x) ==
    IF x.t \notin {"int", "float"} THEN x
    ELSE LET scale == IF x.t = "float" THEN 10 ELSE 1
         IN  IF x.v < AxisRange[1] * scale THEN [x EXCEPT !.v = AxisRange[1] * scale]
             ELSE IF x.v > AxisRange[2] * scale THEN [x EXCEPT !.v = AxisRange[2] * scale]
             ELSE x

CreateTemperatureGaugeClamped(temp, feels_like) ==
    [mode |-> "gauge+number+delta",
     value |-> Clamp(temp),
     delta |-> [reference |-> feels_like, valueformat |-> ".1f"],
     title |-> "Temperature (°C)",
     axis |-> [range |-> AxisRange, tickcolor |-> "#FFFFFF"],
     bar |-> "#4CAF50",
     steps |-> Bands,
     height |-> 300]

CreateTemperatureGauge(temp, feels_like) ==
    [mode |-> "gauge+number+delta",
     value |-> temp,
     delta |-> [reference |-> feels_like, valueformat |-> ".1f"],
     title |-> "Temperature (°C)",
     axis |-> [range |-> AxisRange, tickcolor |-> "#FFFFFF"],
     bar |-> "#4CAF50",
     steps |-> Bands,
     height |-> 300]

----------------------------------------------------------------------------
(* The elements main() puts on the page. *)

Header == [w |-> "header"]
TextInput(value) == [w |-> "text_input", label |-> "Enter City Name", value |-> value]
Button == [w |-> "button", label |-> "Get Weather"]
TitleLine(city_name, t) == [w |-> "title", text |-> "Weather in " \o Join(Title(city_name)), updated |-> t]
Metric(label, value, delta) ==
    [w |-> "metric", label |-> label, value |-> value, delta |-> delta]
Info(text) == [w |-> "info", text |-> text]
DivOpen == [w |-> "div_open"]
DivClose == [w |-> "div_close"]
PlotlyChart(fig) == [w |-> "plotly_chart", fig |-> fig]
Expander == [w |-> "expander", label |-> "See More Details"]
Write(label, value) == [w |-> "write", label |-> label, value |-> value]

(* f"{prefix}{r}{suffix}" where r is the outcome of the subscripts. *)
Fmt(prefix, r, suffix) ==
    IF r.ok THEN Value(prefix \o Str(r.val) \o suffix) ELSE r

(* The statements of the `if data:` block, in order: each either puts its
   elements on the page or raises.  d is the code's data. *)
StepTemperature(d) ==
    LET value == Fmt("", Then(GetItem(d, "main"), "temp"), "°C")
        delta == Fmt("Feels like ", Then(GetItem(d, "main"), "feels_like"), "°C")
    IN  IF ~value.ok THEN value
        ELSE IF ~delta.ok THEN delta
        ELSE Value(<<Metric("Temperature", value.val, delta.val)>>)

StepHumidity(d) ==
    LET value == Fmt("", Then(GetItem(d, "main"), "humidity"), "%")
    IN  IF ~value.ok THEN value ELSE Value(<<Metric("Humidity", value.val, "")>>)

StepWind(d) ==
    LET value == Fmt("", Then(GetItem(d, "wind"), "speed"), " m/s")
    IN  IF ~value.ok THEN value ELSE Value(<<Metric("Wind Speed", value.val, "")>>)

StepConditions(d) ==
    LET weather == GetItem(d, "weather")
        first == IF weather.ok THEN GetIndex(weather.val, 0) ELSE weather
        text == TitleOf(Then(first, "description"))
    IN  IF ~text.ok THEN text
        ELSE Value(<<Info("**Current Conditions:** " \o Join(text.val))>>)

StepGauge(d) ==
    LET temp == Then(GetItem(d, "main"), "temp")
        feels_like == Then(GetItem(d, "main"), "feels_like")
    IN  IF ~temp.ok THEN temp
        ELSE IF ~feels_like.ok THEN feels_like
        ELSE Value(<<PlotlyChart(CreateTemperatureGauge(temp.val, feels_like.val))>>)

StepPressure(d) ==
    LET value == Fmt("", Then(GetItem(d, "main"), "pressure"), " hPa")
    IN  IF ~value.ok THEN value ELSE Value(<<Write("Pressure", value.val)>>)

(* A faulty variant: data['visibility'] in place of data.get. *)
StepVisibilityRaising(d) ==
    LET value == Fmt("", GetItem(d, "visibility"), " meters")
    IN  IF ~value.ok THEN value ELSE Value(<<Write("Visibility", value.val)>>)

StepVisibility(d) ==
    LET value == Fmt("", DictGet(d, "visibility", PyStr(<<"N", "/", "A">>)), " meters")
    IN  IF ~value.ok THEN value ELSE Value(<<Write("Visibility", value.val)>>)

StepCloudiness(d) ==
    LET value == Fmt("", Then(GetItem(d, "clouds"), "all"), "%")
    IN  IF ~value.ok THEN value ELSE Value(<<Write("Cloudiness", value.val)>>)

(* A faulty variant: the line written whether or not there is a rain field. *)
StepRainAlways(d) ==
    LET rain == IF d.t = "dict" /\ "rain" \in DOMAIN d.v
                THEN d.v["rain"] ELSE PyDict(<<>>)
        got == DictGet(rain, "1h", PyInt(0))
    IN  IF ~got.ok THEN got
        ELSE Value(<<Write("Rain (1h)", Str(got.val) \o " mm")>>)

StepRain(d) ==
    IF d.t = "dict" /\ "rain" \in DOMAIN d.v
    THEN LET got == DictGet(d.v["rain"], "1h", PyInt(0))
         IN  IF ~got.ok THEN got
             ELSE Value(<<Write("Rain (1h)", Str(got.val) \o " mm")>>)
    ELSE Value(<<>>)

Steps(d, city_name, t) ==
    <<Value(<<TitleLine(city_name, t)>>),
      StepTemperature(d), StepHumidity(d), StepWind(d),
      StepConditions(d),
      Value(<<DivOpen>>), StepGauge(d), Value(<<DivClose>>),
      Value(<<Expander>>),
      StepPressure(d), StepVisibility(d), StepCloudiness(d),
      StepRain(d)>>

(* The elements of the first n steps. *)
RECURSIVE Emitted(_, _)
Emitted(steps, n) ==
    IF n = 0 THEN <<>> ELSE Emitted(steps, n - 1) \o steps[n].val

(* The `if data:` block: the statements run in order until one raises. *)
Render(d, city_name, t) ==
    LET steps == Steps(d, city_name, t)
        raising == {i \in DOMAIN steps : ~steps[i].ok}
        stop == IF raising = {} THEN Len(steps) + 1
                ELSE CHOOSE i \in raising : \A j \in raising : i <= j
    IN  [elements |-> Emitted(steps, stop - 1),
         exc |-> IF raising = {} THEN "none" ELSE steps[stop].exc]

NotCalled == [called |-> FALSE, ret |-> None]

(* One run of main() with the text input holding city_name, the button
   returning clicked, requests.get meeting ans and the clock reading t.
   The page is what st.* calls put on it, without the layout (columns, the
   spacing markdown); an exception that leaves main() ends the run, and
   Streamlit runs the script afresh at the next interaction. *)
Main(city_name, clicked, ans, t) ==
    LET chrome == <<Header, TextInput(city_name), Button>>
    IN  IF clicked /\ Len(city_name) > 0
        THEN LET got == GetWeatherData(city_name, ans)
                 shown == IF Truthy(got.ret)
                          THEN Render(got.ret, city_name, t)
                          ELSE [elements |-> <<>>, exc |-> "none"]
             IN  [page |-> chrome \o got.errors \o shown.elements,
                  unhandled |-> shown.exc,
                  answer |-> ans,
                  data |-> [called |-> TRUE, ret |-> got.ret],
                  sent |-> got.sent]
        ELSE [page |-> chrome, unhandled |-> "none", answer |-> NoRequest,
              data |-> NotCalled, sent |-> 0]

----------------------------------------------------------------------------
(* The inputs: what the user types, what the environment holds and what the
   endpoint can answer. *)

London == <<"L", "o", "n", "d", "o", "n">>
Cities == {<<>>, London, <<"n", "e", "w", " ", "y", "o", "r", "k">>}

(* os.getenv('API_KEY'): unset, a credential the endpoint rejects, one it accepts. *)
GoodKey == PyStr(<<"g", "o", "o", "d">>)
Keys == {None, PyStr(<<"b", "a", "d">>), GoodKey}

With(f, k, x) == (k :> x) @@ f
Without(f, k) == [j \in DOMAIN f \ {k} |-> f[j]]

MainOf(temp, feels_like) ==
    PyDict("temp" :> temp @@ "feels_like" :> feels_like
           @@ "humidity" :> PyInt(70) @@ "pressure" :> PyInt(1012))

(* temp=15.0, feels_like=14.2, humidity=70, wind.speed=3.5, "clear sky",
   clouds.all=10, pressure=1012; no visibility and no rain. *)
Reading(temp, feels_like) ==
    "main" :> MainOf(temp, feels_like)
    @@ "wind" :> PyDict("speed" :> PyFloat(35))
    @@ "weather" :> PyList(<<PyDict("description" :>
                        PyStr(<<"c", "l", "e", "a", "r", " ", "s", "k", "y">>))>>)
    @@ "clouds" :> PyDict("all" :> PyInt(10))

Mild == Reading(PyFloat(150), PyFloat(142))
Clear == With(Mild, "visibility", PyInt(10000))

Bodies ==
    <<PyDict(Clear),
      PyDict(Mild),
      PyDict(With(Clear, "rain", PyDict("1h" :> PyFloat(23)))),
      PyDict(With(Mild, "rain", PyDict("1h" :> PyInt(4)))),
      PyDict(With(Clear, "rain", PyDict("3h" :> PyFloat(10)))),
      PyDict(With(Reading(PyFloat(-255), PyInt(-31)), "visibility", PyInt(200))),
      PyDict(With(Reading(PyInt(55), PyFloat(587)), "visibility", None)),
      PyDict(<<>>),
      PyList(<<>>),
      PyDict("cod" :> PyInt(200)),
      PyList(<<PyInt(1)>>),
      PyDict(Without(Clear, "wind")),
      PyDict(With(Clear, "weather", PyList(<<>>))),
      PyDict(Without(Clear, "clouds")),
      PyDict(With(Clear, "main", PyDict("temp" :> PyFloat(150) @@ "feels_like" :> PyFloat(142)
                                        @@ "humidity" :> PyInt(70)))),
      PyDict(With(Clear, "rain", None))>>

Answers ==
    [i \in DOMAIN Bodies |-> Response(200, Bodies[i])]
    \o <<Response(404, PyDict("cod" :> PyStr(<<"4", "0", "4">>))),
         Response(401, PyDict("cod" :> PyInt(401))),
         Unparseable(500, "Expecting value: line 1 column 1 (char 0)"),
         Unparseable(200, "Expecting value: line 1 column 1 (char 0)"),
         Unparseable(204, "Expecting value: line 1 column 1 (char 0)"),
         Unparseable(304, "Expecting value: line 1 column 1 (char 0)"),
         Raised("ConnectionError", "Max retries exceeded with url: /data/2.5/weather"),
         Raised("ReadTimeout", "Read timed out.")>>

(* What the endpoint can answer to a request: without a credential it
   accepts, a 401 or a server error, unless the request never gets there. *)
EndpointAnswers(request) ==
    IF request.appid = GoodKey
    THEN Range(Answers)
    ELSE {a \in Range(Answers) : a.kind = "raised" \/ a.status \in {401, 500}}

Temps == <<PyFloat(-255), PyInt(-20), PyInt(0), PyFloat(142), PyFloat(150),
           PyInt(20), PyInt(50), PyFloat(587)>>

----------------------------------------------------------------------------
(* The dashboard. *)

(* The script's first run, when the page is opened: load_dotenv(), the page
   configuration, and main() with the text input at its default and the
   button not clicked. *)
NoEarlier ==
    [set |-> FALSE, city |-> <<>>, answer |-> NoRequest, page |-> <<>>,
     unhandled |-> "none"]

Init ==
    /\ api_key \in Keys
    /\ city = London
    /\ search_clicked = FALSE
    /\ now = 0
    /\ answer = NoRequest
    /\ data = NotCalled
    /\ page = Main(London, FALSE, NoRequest, 0).page
    /\ unhandled = "none"
    /\ requests = 0
    /\ submissions = 0
    /\ cycles = 0
    /\ earlier = NoEarlier
    /\ gauge_in = <<None, None>>
    /\ gauge_out = <<>>

(* A run of the script: the interaction has set the text input to c and the
   button to clicked.  The clock counts seconds, and an interaction comes at
   least a second after the one before. *)
Run(c, clicked, ans) ==
    /\ cycles < MaxCycles
    /\ \E out \in {Main(c, clicked, ans, now + 1)} :
        /\ cycles' = cycles + 1
        /\ now' = now + 1
        /\ city' = c
        /\ search_clicked' = clicked
        /\ answer' = out.answer
        /\ data' = out.data
        /\ page' = out.page
        /\ unhandled' = out.unhandled
        /\ requests' = requests + out.sent
        /\ submissions' = submissions + (IF clicked /\ Len(c) > 0 THEN 1 ELSE 0)
        /\ UNCHANGED <<api_key, gauge_in, gauge_out>>

(* The user changes the text input: the script runs with the button not clicked. *)
EditCity ==
    \E c \in Cities \ {city} :
        /\ Run(c, FALSE, NoRequest)
        /\ UNCHANGED earlier

(* The user clicks "Get Weather", after typing a city or not: the script
   runs with the button clicked, and the endpoint answers if it is asked. *)
ClickGetWeather ==
    \E c \in Cities :
        IF Len(c) > 0
        THEN \E ans \in EndpointAnswers(Request(c)) :
                /\ Run(c, TRUE, ans)
                /\ \/ UNCHANGED earlier
                   \/ /\ ~earlier.set
                      /\ earlier' = [set |-> TRUE, city |-> c, answer |-> ans,
                                     page |-> page', unhandled |-> unhandled']
        ELSE /\ Run(c, TRUE, NoRequest)
             /\ UNCHANGED earlier

Next == EditCity \/ ClickGetWeather

Spec == Init /\ [][Next]_vars

----------------------------------------------------------------------------
(* The gauge renderer on its own: a pair of temperatures, and the chart
   specifications successive calls create for it. *)

GaugeInit ==
    /\ api_key = GoodKey
    /\ city = London
    /\ search_clicked = FALSE
    /\ now = 0
    /\ answer = NoRequest
    /\ data = NotCalled
    /\ page = Main(London, FALSE, NoRequest, 0).page
    /\ unhandled = "none"
    /\ requests = 0
    /\ submissions = 0
    /\ cycles = 0
    /\ earlier = NoEarlier
    /\ gauge_in \in Range(Temps) \X Range(Temps)
    /\ gauge_out = <<>>

CallGauge ==
    /\ Len(gauge_out) < MaxGaugeCalls
    /\ gauge_out' = Append(gauge_out, CreateTemperatureGauge(gauge_in[1], gauge_in[2]))
    /\ UNCHANGED <<api_key, city, search_clicked, now, answer, data, page, unhandled,
                   requests, submissions, cycles, earlier, gauge_in>>

GaugeNext == CallGauge

GaugeSpec == GaugeInit /\ [][GaugeNext]_vars

----------------------------------------------------------------------------
(* What the properties speak about. *)

(* The last run was a submission: the button clicked with a non-empty city. *)
Submitted == search_clicked /\ Len(city) > 0

(* What every run puts on the page before it looks at the button. *)
Chrome == <<Header, TextInput(city), Button>>

HttpErrorStatus == answer.kind = "response" /\ answer.status \in 400..599
Successful == answer.kind = "response" /\ answer.status \in 200..299 /\ answer.parseable
OtherFailure ==
    \/ answer.kind = "raised"
    \/ answer.kind = "response" /\ answer.status \notin 400..599 /\ ~answer.parseable

ReturnedNone == data = [called |-> TRUE, ret |-> None]

ErrorsOn(p) == SelectSeq(p, LAMBDA e : e.w = "error")
ReadingKinds ==
    {"title", "metric", "info", "div_open", "plotly_chart", "div_close",
     "expander", "write"}
ShowsNoReading(p) == \A i \in DOMAIN p : p[i].w \notin ReadingKinds
Has(p, kind) == \E i \in DOMAIN p : p[i].w = kind
HasLabelled(p, kind, label) ==
    \E i \in DOMAIN p : p[i].w = kind /\ p[i].label = label
ValuesOf(p, label) ==
    LET lines == SelectSeq(p, LAMBDA e : e.w = "write")
    IN  [i \in DOMAIN SelectSeq(lines, LAMBDA e : e.label = label) |->
            SelectSeq(lines, LAMBDA e : e.label = label)[i].value]

(* Temperature, humidity, wind speed, condition, pressure and cloudiness. *)
SixFields(p) ==
    /\ HasLabelled(p, "metric", "Temperature")
    /\ HasLabelled(p, "metric", "Humidity")
    /\ HasLabelled(p, "metric", "Wind Speed")
    /\ Has(p, "info")
    /\ HasLabelled(p, "write", "Pressure")
    /\ HasLabelled(p, "write", "Cloudiness")

(* Title, metrics, condition, gauge and detail panel. *)
ReadingRendered(p) ==
    /\ Has(p, "title")
    /\ SixFields(p)
    /\ Has(p, "plotly_chart")
    /\ Has(p, "expander")
    /\ HasLabelled(p, "write", "Visibility")

(* A body with every field the render subscripts. *)
Mandatory(b) ==
    /\ Then(GetItem(b, "main"), "temp").ok
    /\ Then(GetItem(b, "main"), "feels_like").ok
    /\ Then(GetItem(b, "main"), "humidity").ok
    /\ Then(GetItem(b, "main"), "pressure").ok
    /\ Then(GetItem(b, "wind"), "speed").ok
    /\ Then(GetItem(b, "clouds"), "all").ok
    /\ GetItem(b, "weather").ok
    /\ GetIndex(GetItem(b, "weather").val, 0).ok
    /\ TitleOf(GetItem(GetIndex(GetItem(b, "weather").val, 0).val, "description")).ok

(* The page without the time of the render. *)
Undated(p) ==
    [i \in DOMAIN p |-> IF p[i].w = "title" THEN [p[i] EXCEPT !.updated = 0] ELSE p[i]]

(* The last run repeats the remembered submission: same city, same answer. *)
RepeatsEarlier ==
    earlier.set /\ Submitted /\ earlier.city = city /\ earlier.answer = answer

AcceptsSubmission == cycles < MaxCycles => ENABLED ClickGetWeather

----------------------------------------------------------------------------
(* C1: a submission the endpoint answers with an HTTP error status (4xx,
   5xx) makes get_weather_data return None and signal 'City not found or
   invalid API key' exactly once; the generic error is not signaled and no
   title, metric, condition line, gauge or detail panel is rendered. *)
C1_HttpErrorIsClientError ==
    (Submitted /\ HttpErrorStatus) =>
        /\ ReturnedNone
        /\ page = Chrome \o <<Error(ClientErrorText)>>
        /\ unhandled = "none"

C1_Witness ==
    /\ Submitted /\ answer.status = 404
    /\ ErrorsOn(page) = <<Error(ClientErrorText)>>

(* C2: a submission that fails otherwise (requests.get raises, or the body
   of a response without an error status does not parse) makes
   get_weather_data return None and signal exactly one generic error that
   carries the failure's description; the client error is not signaled and
   nothing else is rendered. *)
C2_OtherFailureIsGenericError ==
    (Submitted /\ OtherFailure) =>
        /\ ReturnedNone
        /\ page = Chrome \o <<Error("An error occurred: " \o answer.desc)>>
        /\ \A i \in DOMAIN page : page[i].w = "error" => page[i].text # ClientErrorText
        /\ unhandled = "none"

C2_Witness ==
    /\ Submitted /\ answer.kind = "response" /\ answer.status = 200 /\ ~answer.parseable
    /\ Len(ErrorsOn(page)) = 1

(* C3, as stated: whenever the endpoint answers a submission with a 2xx
   response whose body parses, the render completes with the six required
   fields on the page and nothing raised. *)
C3_SuccessPopulatesAllFields ==
    (Submitted /\ Successful) => (unhandled = "none" /\ SixFields(page))

(* C4: the requests issued are as many as the submissions (one each, failed
   or not), and a run that is no submission issues no request, signals no
   error and renders no reading. *)
C4_OneRequestPerSubmission ==
    /\ requests = submissions
    /\ ~Submitted =>
        /\ answer = NoRequest
        /\ ~data.called
        /\ page = Chrome
        /\ unhandled = "none"

C4_Witness ==
    /\ cycles = 2 /\ submissions = 1 /\ requests = 1
    /\ ~Submitted /\ earlier.set /\ Len(ErrorsOn(earlier.page)) = 1

(* C5, as stated: a submission that repeats an earlier one (same city, same
   answer) has the same outcome, every value shown included, and the
   dashboard accepts a further submission. *)
C5_OutcomeOnlyOfCityAndAnswer ==
    /\ RepeatsEarlier => (page = earlier.page /\ unhandled = earlier.unhandled)
    /\ AcceptsSubmission

(* C5, amended: a submission that repeats an earlier one (same city, same
   answer) has the same outcome but for the time of the render in the title
   line, and the dashboard accepts a further submission whatever the earlier
   ones ended in. *)
C5_OutcomeOnlyOfCityAnswerAndClock ==
    /\ RepeatsEarlier =>
        (Undated(page) = Undated(earlier.page) /\ unhandled = earlier.unhandled)
    /\ AcceptsSubmission

C5_Witness ==
    /\ RepeatsEarlier /\ cycles = 2 /\ submissions = 2
    /\ page # earlier.page

(* C6: in a render that completes, the detail panel has a rainfall line
   exactly when the response has a rain field; the line shows rain["1h"]
   as str() gives it followed by ' mm', or 0 when rain has no "1h". *)
C6_RainLine ==
    (Submitted /\ Truthy(data.ret) /\ unhandled = "none") =>
        LET body == answer.body.v
        IN  IF "rain" \in DOMAIN body
            THEN ValuesOf(page, "Rain (1h)") =
                    <<(IF "1h" \in DOMAIN body["rain"].v
                       THEN Str(body["rain"].v["1h"]) ELSE "0") \o " mm">>
            ELSE ValuesOf(page, "Rain (1h)") = <<>>

C6_Witness ==
    /\ Submitted /\ unhandled = "none"
    /\ ValuesOf(page, "Rain (1h)") = <<"2.3 mm">>

(* C7: when a successful response with the mandatory fields has no
   visibility, the visibility line shows 'N/A' and the pressure and
   cloudiness lines are rendered all the same; a visibility that is there
   is shown as str() gives it. *)
C7_VisibilityPlaceholder ==
    (Submitted /\ Successful /\ Mandatory(answer.body)) =>
        /\ Len(ValuesOf(page, "Pressure")) = 1
        /\ Len(ValuesOf(page, "Cloudiness")) = 1
        /\ ValuesOf(page, "Visibility") =
                <<(IF "visibility" \in DOMAIN answer.body.v
                   THEN Str(answer.body.v["visibility"]) ELSE "N/A") \o " meters">>

C7_Witness ==
    /\ Submitted /\ Successful /\ Mandatory(answer.body)
    /\ "visibility" \notin DOMAIN answer.body.v
    /\ ValuesOf(page, "Visibility") = <<"N/A meters">>
    /\ ValuesOf(page, "Cloudiness") = <<"10%">>

(* C8: with API_KEY unset or rejected by the endpoint, the first run and
   every run that is no submission complete with no error signaled; a
   submission ends in exactly one error signaled, nothing rendered and
   nothing raised; and the dashboard accepts a further submission. *)
C8_BadCredentialFailsAtRequest ==
    api_key # GoodKey =>
        /\ ~Submitted => (ErrorsOn(page) = <<>> /\ unhandled = "none")
        /\ Submitted =>
            /\ Len(ErrorsOn(page)) = 1
            /\ ShowsNoReading(page)
            /\ unhandled = "none"
            /\ ReturnedNone
        /\ AcceptsSubmission

C8_Witness ==
    /\ api_key = None /\ Submitted /\ answer.status = 401
    /\ cycles = 2 /\ submissions = 2
    /\ ErrorsOn(page) = <<Error(ClientErrorText)>>

(* C9: every chart specification created for a pair (temp, feels_like) has
   temp as its value and feels_like as its delta reference, the axis range
   [-20, 50] and the bands [-20, 0], [0, 20], [20, 50], whatever the pair,
   and two calls with the same pair create equal specifications. *)
C9_GaugeDeterministic ==
    /\ \A i \in DOMAIN gauge_out :
        /\ gauge_out[i].value = gauge_in[1]
        /\ gauge_out[i].delta.reference = gauge_in[2]
        /\ gauge_out[i].axis.range = <<-20, 50>>
        /\ [k \in DOMAIN gauge_out[i].steps |-> gauge_out[i].steps[k].range]
                = <<(<<-20, 0>>), (<<0, 20>>), (<<20, 50>>)>>
    /\ \A i, j \in DOMAIN gauge_out : gauge_out[i] = gauge_out[j]

C9_Witness ==
    /\ Len(gauge_out) = 2
    /\ gauge_in = <<PyFloat(587), PyFloat(-255)>>
    /\ gauge_out[2].value = PyFloat(587)

(* C10, as stated: every submission ends either with a reading rendered
   (title, metrics, condition, gauge, detail panel) or with an error
   signaled, never both and never neither. *)
C10_ReadingOrErrorNeverBothNorNeither ==
    Submitted =>
        \/ ReadingRendered(page) /\ unhandled = "none" /\ ErrorsOn(page) = <<>>
        \/ ShowsNoReading(page) /\ unhandled = "none" /\ Len(ErrorsOn(page)) = 1

=============================================================================
